---------------------------- MODULE Spec2Model ----------------------------
(***************************************************************************)
(* Model of src/app/main.py: the YouTube transcript service.               *)
(*                                                                         *)
(* Python strings are modelled as sequences of one-character strings, so   *)
(* that split / strip / lower / rstrip / join and the f-string number      *)
(* formats are computed character by character as Python computes them.    *)
(* Optional[str] is a sequence too: None is the one-element sequence       *)
(* <<"None">>, which no string of single characters equals.                *)
(*                                                                         *)
(* Floating point seconds are modelled as an integer number of ticks of    *)
(* 1/4 millisecond, so that round(seconds * 1000) has something to round    *)
(* (below, at and above the half) and 100 hours still fit TLC's integers.  *)
(***************************************************************************)
EXTENDS Integers, Sequences, FiniteSets, TLC

VARIABLES
    \* ---- _parse_languages applied to one input
    p_lang, p_languages, p_done,
    \* ---- _to_srt_timestamp / _to_vtt_timestamp applied to one input
    ts_seconds, ts_srt, ts_vtt, ts_done,
    \* ---- _format_srt applied to one transcript
    f_transcript, f_out, f_done,
    \* ---- the process: os.environ, the lru_cache of _get_api, and counters of
    \* the runs of _get_api's body and of the requests received
    env, cache, constructed, nreq,
    \* ---- get_transcript, per worker thread: its position, its arguments, its
    \* locals, the exception that left the try block, the response, and the log
    \* of the calls it made
    pc, req, languages, api, transcript_list, transcript, fetched, exc,
    response, calls

pureVars == <<p_lang, p_languages, p_done, ts_seconds, ts_srt, ts_vtt, ts_done,
              f_transcript, f_out, f_done>>

procVars == <<env, cache, constructed, nreq>>

reqVars == <<pc, req, languages, api, transcript_list, transcript, fetched, exc,
             response, calls>>

vars == <<pureVars, procVars, reqVars>>

-----------------------------------------------------------------------------
(* Bounds of the model *)

\* longest raw lang string given to _parse_languages
MaxLangLen == 4
\* largest hours value of a timestamp input
MaxHours == 100
\* most snippets in a transcript given to _format_srt
MaxSnippets == 2
\* longest snippet text given to _format_srt
MaxTextLen == 2
\* worker threads that run get_transcript concurrently
NThreads == 2
\* requests received over the life of the process
MaxRequests == 2

-----------------------------------------------------------------------------
(* Python str helpers *)

None == <<"None">>

\* the characters str.strip() / str.rstrip() remove, among those of the model
Whitespace == {" ", "\n", "\t"}

\* str.lower() on one character
LowerChar(c) ==
    CASE c = "A" -> "a"
      [] c = "B" -> "b"
      [] c = "D" -> "d"
      [] c = "E" -> "e"
      [] c = "N" -> "n"
      [] OTHER -> c

\* str.lower()
Lower(s) == [i \in 1..Len(s) |-> LowerChar(s[i])]

RECURSIVE RStrip(_)
\* str.rstrip()
RStrip(s) ==
    IF s = <<>> THEN s
    ELSE IF s[Len(s)] \in Whitespace THEN RStrip(SubSeq(s, 1, Len(s) - 1))
    ELSE s

RECURSIVE LStrip(_)
\* str.lstrip()
LStrip(s) ==
    IF s = <<>> THEN s
    ELSE IF s[1] \in Whitespace THEN LStrip(Tail(s))
    ELSE s

\* str.strip()
Strip(s) == LStrip(RStrip(s))

RECURSIVE Split(_)
\* str.split(","): always at least one piece, "" gives [""]
Split(s) ==
    IF \A i \in 1..Len(s) : s[i] # ","
    THEN <<s>>
    ELSE LET i == CHOOSE k \in 1..Len(s) :
                      s[k] = "," /\ \A j \in 1..(k - 1) : s[j] # ","
         IN  <<SubSeq(s, 1, i - 1)>> \o Split(SubSeq(s, i + 1, Len(s)))

RECURSIVE Join(_, _)
\* sep.join(lines)
Join(sep, lines) ==
    IF lines = <<>> THEN <<>>
    ELSE IF Len(lines) = 1 THEN lines[1]
    ELSE lines[1] \o sep \o Join(sep, Tail(lines))

DigitChar(d) ==
    CASE d = 0 -> "0" [] d = 1 -> "1" [] d = 2 -> "2" [] d = 3 -> "3"
      [] d = 4 -> "4" [] d = 5 -> "5" [] d = 6 -> "6" [] d = 7 -> "7"
      [] d = 8 -> "8" [] d = 9 -> "9"

RECURSIVE Str(_)
\* str(n) for n >= 0
Str(n) == IF n < 10 THEN <<DigitChar(n)>>
          ELSE Str(n \div 10) \o <<DigitChar(n % 10)>>

RECURSIVE ZeroPad(_, _)
\* the f-string format {n:0wd}: zero-padded to AT LEAST w digits
ZeroPad(s, w) == IF Len(s) >= w THEN s ELSE ZeroPad(<<"0">> \o s, w)

-----------------------------------------------------------------------------
(* _parse_languages *)

En == <<"e", "n">>

NonEmpty(code) == code # <<>>

ParseLanguagesNoLower(lang) ==
    IF lang = None \/ lang = <<>> THEN <<En>>
    ELSE LET pieces == Split(lang)
             lowered == [i \in 1..Len(pieces) |-> Strip(pieces[i])]
         IN  SelectSeq(lowered, NonEmpty)

ParseLanguages(lang) ==
    IF lang = None \/ lang = <<>> THEN <<En>>
    ELSE LET pieces == Split(lang)
             lowered == [i \in 1..Len(pieces) |-> Lower(Strip(pieces[i]))]
         IN  SelectSeq(lowered, NonEmpty)

-----------------------------------------------------------------------------
(* _to_srt_timestamp, _to_vtt_timestamp *)

\* int(round(seconds * 1000)), seconds given in ticks of 1/4 ms;
\* Python's round() rounds a half to the even neighbour
MillisecondsTotal(seconds) ==
    LET q == seconds \div 4
        r == seconds % 4
    IN  IF r < 2 THEN q
        ELSE IF r > 2 THEN q + 1
        ELSE IF q % 2 = 0 THEN q ELSE q + 1

TimestampNoMod(seconds, sep) ==
    LET milliseconds_total == MillisecondsTotal(seconds)
        hours   == milliseconds_total \div 3600000
        minutes == milliseconds_total \div 60000
        secs    == (milliseconds_total % 60000) \div 1000
        millis  == milliseconds_total % 1000
    IN  ZeroPad(Str(hours), 2) \o <<":">> \o ZeroPad(Str(minutes), 2) \o <<":">>
        \o ZeroPad(Str(secs), 2) \o <<sep>> \o ZeroPad(Str(millis), 3)

\* the body shared by the two functions, which differ in the separator only
Timestamp(seconds, sep) ==
    LET milliseconds_total == MillisecondsTotal(seconds)
        hours   == milliseconds_total \div 3600000
        minutes == (milliseconds_total % 3600000) \div 60000
        secs    == (milliseconds_total % 60000) \div 1000
        millis  == milliseconds_total % 1000
    IN  ZeroPad(Str(hours), 2) \o <<":">> \o ZeroPad(Str(minutes), 2) \o <<":">>
        \o ZeroPad(Str(secs), 2) \o <<sep>> \o ZeroPad(Str(millis), 3)

ToSrtTimestamp(seconds) == Timestamp(seconds, ",")

ToVttTimestamp(seconds) == Timestamp(seconds, ".")

-----------------------------------------------------------------------------
(* serializers *)

Arrow == <<" ", "-", "-", ">", " ">>

NL == <<"\n">>

\* _format_txt
FormatTxt(snippets) ==
    Join(NL, [i \in 1..Len(snippets) |-> snippets[i].text])

\* the four lines the loop of _format_srt appends for snippet idx
SrtLines(idx, snippet) ==
    << Str(idx),
       ToSrtTimestamp(snippet.start) \o Arrow
           \o ToSrtTimestamp(snippet.start + snippet.duration),
       snippet.text,
       <<>> >>

RECURSIVE SrtAllLines(_, _)
SrtAllLines(snippets, idx) ==
    IF idx > Len(snippets) THEN <<>>
    ELSE SrtLines(idx, snippets[idx]) \o SrtAllLines(snippets, idx + 1)

FormatSrtNoStrip(snippets) ==
    Join(NL, SrtAllLines(snippets, 1)) \o NL

FormatSrt(snippets) ==
    RStrip(Join(NL, SrtAllLines(snippets, 1))) \o NL

VttLines(snippet) ==
    << ToVttTimestamp(snippet.start) \o Arrow
           \o ToVttTimestamp(snippet.start + snippet.duration),
       snippet.text,
       <<>> >>

RECURSIVE VttAllLines(_, _)
VttAllLines(snippets, idx) ==
    IF idx > Len(snippets) THEN <<>>
    ELSE VttLines(snippets[idx]) \o VttAllLines(snippets, idx + 1)

FormatVtt(snippets) ==
    RStrip(Join(NL, <<<<"W", "E", "B", "V", "T", "T">>, <<>>>>
                    \o VttAllLines(snippets, 1))) \o NL

\* FetchedTranscript.to_raw_data(): the list of {text, start, duration}
ToRawData(snippets) ==
    [i \in 1..Len(snippets) |->
        [text |-> snippets[i].text, start |-> snippets[i].start,
         duration |-> snippets[i].duration]]

-----------------------------------------------------------------------------
(* Inputs of the pure functions *)

RECURSIVE StringsUpTo(_, _)
\* the strings over alphabet of length at most n
StringsUpTo(alphabet, n) ==
    IF n = 0 THEN {<<>>}
    ELSE LET shorter == StringsUpTo(alphabet, n - 1)
         IN  shorter \cup {Append(s, c) : s \in shorter, c \in alphabet}

LangAlphabet == {"a", "A", "b", ",", " "}

LangInputs == {None} \cup StringsUpTo(LangAlphabet, MaxLangLen)

\* seconds, in ticks: hours, minutes, seconds, milliseconds and a fraction of
\* a millisecond below, at and above the half
SecondsInputs ==
    { (((h * 60 + m) * 60 + s) * 1000 + ms) * 4 + frac :
        h \in 0..MaxHours, m \in {0, 1, 59}, s \in {0, 1, 59},
        ms \in {0, 1, 999}, frac \in 0..3 }

TextAlphabet == {"h", " "}

SnippetInputs ==
    [ text : StringsUpTo(TextAlphabet, MaxTextLen),
      start : {0, 4000},
      duration : {8000} ]
    \cup
    [ text : StringsUpTo(TextAlphabet, MaxTextLen),
      start : {14644002},
      duration : {6} ]

RECURSIVE TranscriptsUpTo(_)
TranscriptsUpTo(n) ==
    IF n = 0 THEN {<<>>}
    ELSE LET shorter == TranscriptsUpTo(n - 1)
         IN  shorter \cup {Append(t, s) : t \in shorter, s \in SnippetInputs}

-----------------------------------------------------------------------------
(* The transcript provider: youtube_transcript_api, as main.py uses it *)

YouTubeTranscriptApiException == "YouTubeTranscriptApiException"

YouTubeRequestFailed == "YouTubeRequestFailed"

NoTranscriptFound == "NoTranscriptFound"

\* the exception classes main.py imports and names in its first except clause
NotFoundClasses ==
    {"NoTranscriptFound", "TranscriptsDisabled", "VideoUnavailable",
     "VideoUnplayable", "IpBlocked", "RequestBlocked", "AgeRestricted",
     "InvalidVideoId", "PoTokenRequired", YouTubeTranscriptApiException}

\* the classes of the exceptions the provider raises
ProviderClasses == NotFoundClasses \cup {YouTubeRequestFailed}

\* the class hierarchy of youtube_transcript_api: every exception class of
\* the library, YouTubeRequestFailed included, derives from
\* YouTubeTranscriptApiException; IpBlocked derives from RequestBlocked;
\* "Exception" stands for an exception that is not the library's
Superclasses(cls) ==
    {cls, "Exception"}
    \cup (IF cls \in ProviderClasses THEN {YouTubeTranscriptApiException} ELSE {})
    \cup (IF cls = "IpBlocked" THEN {"RequestBlocked"} ELSE {})

\* isinstance(e, cls)
IsInstance(e, cls) == cls \in Superclasses(e.kind)

RECURSIVE FindIn(_, _, _)
\* TranscriptList._find_transcript(language_codes, transcript_dicts): the
\* first language code, in the order given, that one of the dicts holds, the
\* dicts tried in their order for each code; <<>> for NoTranscriptFound
FindIn(language_codes, tl, dicts) ==
    IF language_codes = <<>> THEN <<>>
    ELSE LET code == Head(language_codes)
             hits == SelectSeq(dicts, LAMBDA d : code \in tl[d])
         IN  IF hits # <<>>
             THEN <<[language_code |-> code, is_generated |-> Head(hits) = "generated"]>>
             ELSE FindIn(Tail(language_codes), tl, dicts)

\* TranscriptList.find_transcript: manually created and generated tracks
FindTranscriptIn(tl, language_codes) ==
    FindIn(language_codes, tl, <<"manual", "generated">>)

\* TranscriptList.find_generated_transcript: generated tracks only
FindGeneratedTranscriptIn(tl, language_codes) ==
    FindIn(language_codes, tl, <<"generated">>)

-----------------------------------------------------------------------------
(* _get_api *)

\* Python truthiness of an Optional[str]
Truthy(s) == s # None /\ s # <<>>

\* [c.strip() for c in countries_raw.split(",") if c.strip()]
FilterIpLocations(countries_raw) ==
    LET pieces == Split(countries_raw)
        stripped == [i \in 1..Len(pieces) |-> Strip(pieces[i])]
    IN  SelectSeq(stripped, NonEmpty)

\* the body of _get_api: the handle built from the environment; None
\* (proxy_config, filter_ip_locations) is <<>>, a value v is <<v>>
GetApiBodyResult(e, id) ==
    LET username == e.WEBSHARE_USER
        password == e.WEBSHARE_PASS
        countries_raw == e.WEBSHARE_COUNTRIES
        filter_ip_locations ==
            IF Truthy(countries_raw) THEN <<FilterIpLocations(countries_raw)>>
            ELSE <<>>
        proxy_config ==
            IF Truthy(username) /\ Truthy(password)
            THEN <<[proxy_username |-> username, proxy_password |-> password,
                    filter_ip_locations |-> filter_ip_locations]>>
            ELSE <<>>
    IN  [id |-> id, proxy_config |-> proxy_config]

CacheNeverHits(c) == FALSE

\* lru_cache(maxsize=1) on a function of no arguments: a hit when the one
\* entry is there
CacheHit(c) == c # <<>>

-----------------------------------------------------------------------------
(* get_transcript *)

MissingVideoIdNoneOnly(video_id) == video_id = None

\* `not video_id`
MissingVideoId(video_id) == video_id = None \/ video_id = <<>>

HTTPException(status_code, detail) ==
    [status_code |-> status_code, kind |-> "error", content |-> detail]

MapExceptionGenericDetail(e) ==
    IF \E cls \in NotFoundClasses : IsInstance(e, cls)
    THEN HTTPException(404, "Not Found")
    ELSE IF IsInstance(e, YouTubeRequestFailed)
    THEN HTTPException(502, e.msg)
    ELSE HTTPException(500, "Internal Server Error")

\* the except clauses of get_transcript, tried in their order; str(e) is the
\* exception's message
MapException(e) ==
    IF \E cls \in NotFoundClasses : IsInstance(e, cls)
    THEN HTTPException(404, e.msg)
    ELSE IF IsInstance(e, YouTubeRequestFailed)
    THEN HTTPException(502, e.msg)
    ELSE HTTPException(500, "Internal Server Error")

\* the format dispatch: the serializer called and the response returned
Serializer(output_format) ==
    CASE output_format = "json" -> "to_raw_data"
      [] output_format = "txt" -> "_format_txt"
      [] output_format = "srt" -> "_format_srt"
      [] output_format = "vtt" -> "_format_vtt"
      [] OTHER -> "to_raw_data"

FormatResponse(output_format, snippets) ==
    CASE output_format = "txt" ->
            [status_code |-> 200, kind |-> "text/plain", content |-> FormatTxt(snippets)]
      [] output_format = "srt" ->
            [status_code |-> 200, kind |-> "text/plain", content |-> FormatSrt(snippets)]
      [] output_format = "vtt" ->
            [status_code |-> 200, kind |-> "text/plain", content |-> FormatVtt(snippets)]
      [] OTHER ->
            [status_code |-> 200, kind |-> "json", content |-> ToRawData(snippets)]

\* the handler is left, by return or by raise: its locals are gone
Leave(t, resp, e) ==
    /\ pc' = [pc EXCEPT ![t] = "done"]
    /\ response' = [response EXCEPT ![t] = <<resp>>]
    /\ exc' = [exc EXCEPT ![t] = e]
    /\ languages' = [languages EXCEPT ![t] = <<>>]
    /\ transcript_list' = [transcript_list EXCEPT ![t] = <<>>]
    /\ transcript' = [transcript EXCEPT ![t] = <<>>]
    /\ fetched' = [fetched EXCEPT ![t] = <<>>]

\* an exception raised inside the try block reaches the except clauses
Raise(t, e) == Leave(t, MapException(e), <<e>>)

\* a worker thread takes a request
Receive(t, requests) ==
    /\ pc[t] \in {"idle", "done"}
    /\ nreq < MaxRequests
    /\ nreq' = nreq + 1
    /\ \E r \in requests : req' = [req EXCEPT ![t] = r]
    /\ pc' = [pc EXCEPT ![t] = "validate"]
    /\ languages' = [languages EXCEPT ![t] = <<>>]
    /\ api' = [api EXCEPT ![t] = <<>>]
    /\ transcript_list' = [transcript_list EXCEPT ![t] = <<>>]
    /\ transcript' = [transcript EXCEPT ![t] = <<>>]
    /\ fetched' = [fetched EXCEPT ![t] = <<>>]
    /\ exc' = [exc EXCEPT ![t] = <<>>]
    /\ response' = [response EXCEPT ![t] = <<>>]
    /\ calls' = [calls EXCEPT ![t] = <<>>]
    /\ UNCHANGED <<env, cache, constructed, pureVars>>

\* lines 139-144: the videoId check, then _parse_languages
Validate(t) ==
    /\ pc[t] = "validate"
    /\ IF MissingVideoId(req[t].video_id)
       THEN /\ Leave(t, HTTPException(400, "Missing required query parameter 'videoId'."), <<>>)
            /\ UNCHANGED calls
       ELSE /\ languages' = [languages EXCEPT ![t] = ParseLanguages(req[t].lang)]
            /\ calls' = [calls EXCEPT ![t] = Append(@, "_parse_languages")]
            /\ pc' = [pc EXCEPT ![t] = "get_api"]
            /\ UNCHANGED <<transcript_list, transcript, fetched, exc, response>>
    /\ UNCHANGED <<req, api, procVars, pureVars>>

\* line 147, the lru_cache wrapper: a hit returns the cached handle, a miss
\* goes on to call the body
GetApiLookup(t) ==
    /\ pc[t] = "get_api"
    /\ calls' = [calls EXCEPT ![t] = Append(@, "_get_api")]
    /\ IF CacheHit(cache)
       THEN /\ api' = [api EXCEPT ![t] = cache]
            /\ pc' = [pc EXCEPT ![t] = "list"]
       ELSE /\ pc' = [pc EXCEPT ![t] = "get_api_body"]
            /\ UNCHANGED api
    /\ UNCHANGED <<req, languages, transcript_list, transcript, fetched, exc,
                   response, procVars, pureVars>>

\* lines 107-122 after a miss: the body runs; when it returns, the wrapper
\* stores the result unless the entry was added meanwhile, and returns the
\* result of this call; when it raises, nothing is stored
GetApiBody(t) ==
    /\ pc[t] = "get_api_body"
    /\ constructed' = constructed + 1
    /\ \/ /\ api' = [api EXCEPT ![t] = <<GetApiBodyResult(env, constructed + 1)>>]
          /\ cache' = IF cache = <<>> THEN api'[t] ELSE cache
          /\ pc' = [pc EXCEPT ![t] = "list"]
          /\ UNCHANGED <<languages, transcript_list, transcript, fetched, exc, response>>
       \/ /\ Raise(t, [kind |-> "Exception", msg |-> "m1"])
          /\ UNCHANGED <<api, cache>>
    /\ UNCHANGED <<req, calls, env, nreq, pureVars>>

\* line 148: api.list(video_id)
List(t, trackLists, errors) ==
    /\ pc[t] = "list"
    /\ calls' = [calls EXCEPT ![t] = Append(@, "list")]
    /\ \/ /\ \E tl \in trackLists :
                transcript_list' = [transcript_list EXCEPT ![t] = <<tl>>]
          /\ pc' = [pc EXCEPT ![t] = "find_transcript"]
          /\ UNCHANGED <<languages, transcript, fetched, exc, response>>
       \/ \E e \in errors : Raise(t, e)
    /\ UNCHANGED <<req, api, procVars, pureVars>>

\* lines 149-151: find_transcript, its NoTranscriptFound caught
FindTranscript(t) ==
    /\ pc[t] = "find_transcript"
    /\ calls' = [calls EXCEPT ![t] = Append(@, "find_transcript")]
    /\ LET found == FindTranscriptIn(transcript_list[t][1], languages[t])
       IN  /\ transcript' = [transcript EXCEPT ![t] = found]
           /\ pc' = [pc EXCEPT ![t] =
                        IF found # <<>> THEN "fetch" ELSE "find_generated_transcript"]
    /\ UNCHANGED <<req, languages, api, transcript_list, fetched, exc, response,
                   procVars, pureVars>>

\* line 152: find_generated_transcript, inside the except clause; its
\* NoTranscriptFound reaches the outer except clauses. (find_transcript has
\* looked at the generated tracks already, so after its NoTranscriptFound
\* this call finds nothing either.)
FindGeneratedTranscript(t, messages) ==
    /\ pc[t] = "find_generated_transcript"
    /\ calls' = [calls EXCEPT ![t] = Append(@, "find_generated_transcript")]
    /\ LET found == FindGeneratedTranscriptIn(transcript_list[t][1], languages[t])
       IN  IF found # <<>>
           THEN /\ transcript' = [transcript EXCEPT ![t] = found]
                /\ pc' = [pc EXCEPT ![t] = "fetch"]
                /\ UNCHANGED <<languages, transcript_list, fetched, exc, response>>
           ELSE \E m \in messages : Raise(t, [kind |-> NoTranscriptFound, msg |-> m])
    /\ UNCHANGED <<req, api, procVars, pureVars>>

FetchRetrying(t, transcripts, errors) ==
    /\ pc[t] = "fetch"
    /\ Len(calls[t]) < 8
    /\ calls' = [calls EXCEPT ![t] = Append(@, "fetch")]
    /\ \/ /\ \E snippets \in transcripts :
                fetched' = [fetched EXCEPT ![t] = <<snippets>>]
          /\ pc' = [pc EXCEPT ![t] = "format"]
       \/ /\ errors # {}
          /\ UNCHANGED <<pc, fetched>>
    /\ UNCHANGED <<languages, transcript_list, transcript, exc, response,
                   req, api, procVars, pureVars>>

\* line 154: transcript.fetch(preserve_formatting=preserve_formatting)
Fetch(t, transcripts, errors) ==
    /\ pc[t] = "fetch"
    /\ calls' = [calls EXCEPT ![t] = Append(@, "fetch")]
    /\ \/ /\ \E snippets \in transcripts :
                fetched' = [fetched EXCEPT ![t] = <<snippets>>]
          /\ pc' = [pc EXCEPT ![t] = "format"]
          /\ UNCHANGED <<languages, transcript_list, transcript, exc, response>>
       \/ \E e \in errors : Raise(t, e)
    /\ UNCHANGED <<req, api, procVars, pureVars>>

\* lines 156-167: the format dispatch
Format(t) ==
    /\ pc[t] = "format"
    /\ calls' = [calls EXCEPT ![t] = Append(@, Serializer(req[t].output_format))]
    /\ Leave(t, FormatResponse(req[t].output_format, fetched[t][1]), <<>>)
    /\ UNCHANGED <<req, api, procVars, pureVars>>

-----------------------------------------------------------------------------
(* Inputs of the service *)

VideoId == <<"v">>

LangCodes == {<<"e", "n">>, <<"d", "e">>}

TrackLists == [manual : SUBSET LangCodes, generated : SUBSET LangCodes]

Messages == {"m1", "m2"}

Errors == [kind : (ProviderClasses \ {NoTranscriptFound}) \cup {"Exception"},
           msg : Messages]

Snippet1 == [text |-> <<"h", "i">>, start |-> 4000, duration |-> 8000]

Snippet2 == [text |-> <<"o", " ">>, start |-> 14644002, duration |-> 6]

Transcripts == {<<>>, <<Snippet1>>, <<Snippet1, Snippet2>>}

ReqLangs ==
    { None, <<>>, <<",">>, <<"e", "n">>,
      <<"d", "e", ",", "e", "n">>, <<"E", "N", ",", " ", "d", "e">> }

Requests ==
    [ video_id : {None, <<>>, VideoId},
      lang : ReqLangs,
      output_format : {"json", "txt", "srt", "vtt"},
      preserve_formatting : BOOLEAN ]

Envs ==
    { [WEBSHARE_USER |-> None, WEBSHARE_PASS |-> None, WEBSHARE_COUNTRIES |-> None],
      [WEBSHARE_USER |-> <<"u">>, WEBSHARE_PASS |-> <<"p">>,
       WEBSHARE_COUNTRIES |-> <<"u", "s", ",", " ", "d", "e">>] }

\* the service under concurrent requests: few kinds of request and of
\* provider answer, several worker threads
FewRequests ==
    [ video_id : {None, VideoId},
      lang : {None},
      output_format : {"json"},
      preserve_formatting : {FALSE} ]

FewTrackLists ==
    { [manual |-> {}, generated |-> {}],
      [manual |-> {}, generated |-> {<<"e", "n">>}],
      [manual |-> {<<"e", "n">>}, generated |-> {}] }

FewErrors == {[kind |-> YouTubeRequestFailed, msg |-> "m1"]}

NoRequest ==
    [video_id |-> None, lang |-> None, output_format |-> "json",
     preserve_formatting |-> FALSE]

-----------------------------------------------------------------------------
(* The service *)

InitService(threads, envs) ==
    /\ env \in envs
    /\ cache = <<>>
    /\ constructed = 0
    /\ nreq = 0
    /\ pc = [t \in threads |-> "idle"]
    /\ req = [t \in threads |-> NoRequest]
    /\ languages = [t \in threads |-> <<>>]
    /\ api = [t \in threads |-> <<>>]
    /\ transcript_list = [t \in threads |-> <<>>]
    /\ transcript = [t \in threads |-> <<>>]
    /\ fetched = [t \in threads |-> <<>>]
    /\ exc = [t \in threads |-> <<>>]
    /\ response = [t \in threads |-> <<>>]
    /\ calls = [t \in threads |-> <<>>]

ServiceIdle == InitService({1}, {CHOOSE e \in Envs : e.WEBSHARE_USER = None})

-----------------------------------------------------------------------------
(* The pure functions as one-step state machines *)

ParseIdle == p_lang = None /\ p_languages = <<>> /\ p_done = FALSE

TsIdle == ts_seconds = 0 /\ ts_srt = <<>> /\ ts_vtt = <<>> /\ ts_done = FALSE

FmtIdle == f_transcript = <<>> /\ f_out = <<>> /\ f_done = FALSE

InitParse ==
    /\ p_lang \in LangInputs
    /\ p_languages = <<>>
    /\ p_done = FALSE
    /\ TsIdle /\ FmtIdle /\ ServiceIdle

CallParseLanguages ==
    /\ ~p_done
    /\ p_languages' = ParseLanguages(p_lang)
    /\ p_done' = TRUE
    /\ UNCHANGED <<p_lang, ts_seconds, ts_srt, ts_vtt, ts_done,
                   f_transcript, f_out, f_done, procVars, reqVars>>

NextParse == CallParseLanguages

SpecParse == InitParse /\ [][NextParse]_vars

InitTs ==
    /\ ts_seconds \in SecondsInputs
    /\ ts_srt = <<>> /\ ts_vtt = <<>>
    /\ ts_done = FALSE
    /\ ParseIdle /\ FmtIdle /\ ServiceIdle

CallTimestamps ==
    /\ ~ts_done
    /\ ts_srt' = ToSrtTimestamp(ts_seconds)
    /\ ts_vtt' = ToVttTimestamp(ts_seconds)
    /\ ts_done' = TRUE
    /\ UNCHANGED <<ts_seconds, p_lang, p_languages, p_done,
                   f_transcript, f_out, f_done, procVars, reqVars>>

NextTs == CallTimestamps

SpecTs == InitTs /\ [][NextTs]_vars

InitFmt ==
    /\ f_transcript \in TranscriptsUpTo(MaxSnippets)
    /\ f_out = <<>>
    /\ f_done = FALSE
    /\ ParseIdle /\ TsIdle /\ ServiceIdle

CallFormatSrt ==
    /\ ~f_done
    /\ f_out' = FormatSrt(f_transcript)
    /\ f_done' = TRUE
    /\ UNCHANGED <<f_transcript, p_lang, p_languages, p_done,
                   ts_seconds, ts_srt, ts_vtt, ts_done, procVars, reqVars>>

NextFmt == CallFormatSrt

SpecFmt == InitFmt /\ [][NextFmt]_vars

-----------------------------------------------------------------------------
(* The service, one request at a time, every kind of request and answer *)

Init == InitService({1}, Envs) /\ ParseIdle /\ TsIdle /\ FmtIdle

Next ==
    \/ \E t \in DOMAIN pc : Receive(t, Requests)
    \/ \E t \in DOMAIN pc : Validate(t)
    \/ \E t \in DOMAIN pc : GetApiLookup(t)
    \/ \E t \in DOMAIN pc : GetApiBody(t)
    \/ \E t \in DOMAIN pc : List(t, TrackLists, Errors)
    \/ \E t \in DOMAIN pc : FindTranscript(t)
    \/ \E t \in DOMAIN pc : FindGeneratedTranscript(t, Messages)
    \/ \E t \in DOMAIN pc : Fetch(t, Transcripts, Errors)
    \/ \E t \in DOMAIN pc : Format(t)

Spec == Init /\ [][Next]_vars

(* The service, NThreads worker threads running get_transcript concurrently *)

InitConc == InitService(1..NThreads, Envs) /\ ParseIdle /\ TsIdle /\ FmtIdle

NextConc ==
    \/ \E t \in DOMAIN pc : Receive(t, FewRequests)
    \/ \E t \in DOMAIN pc : Validate(t)
    \/ \E t \in DOMAIN pc : GetApiLookup(t)
    \/ \E t \in DOMAIN pc : GetApiBody(t)
    \/ \E t \in DOMAIN pc : List(t, FewTrackLists, FewErrors)
    \/ \E t \in DOMAIN pc : FindTranscript(t)
    \/ \E t \in DOMAIN pc : FindGeneratedTranscript(t, {"m1"})
    \/ \E t \in DOMAIN pc : Fetch(t, {<<Snippet1>>}, FewErrors)
    \/ \E t \in DOMAIN pc : Format(t)

SpecConc == InitConc /\ [][NextConc]_vars

-----------------------------------------------------------------------------
(* Helpers of the properties: what the specification says, computed without  *)
(* the operators that model the code                                         *)

Max(S) == CHOOSE x \in S : \A y \in S : y <= x

NotWhitespace(c) == c \notin Whitespace

RemoveWhitespace(s) == SelectSeq(s, NotWhitespace)

RECURSIVE DropEmptyPieces(_, _)
\* s without the commas that open an empty piece: leading and repeated ones
\* (prev is the character before s, "," at the start), and a trailing one
DropEmptyPieces(s, prev) ==
    IF s = <<>> THEN <<>>
    ELSE IF s[1] = "," /\ (prev = "," \/ \A i \in 2..Len(s) : s[i] = ",")
         THEN DropEmptyPieces(Tail(s), prev)
         ELSE <<s[1]>> \o DropEmptyPieces(Tail(s), s[1])

\* the pieces of a raw lang string that hold a character other than whitespace:
\* one per first such character of a comma-free run
NonBlankPieceCount(s) ==
    Cardinality({ i \in 1..Len(s) :
        /\ s[i] \notin Whitespace \cup {","}
        /\ \A j \in 1..(i - 1) :
              (\A k \in j..(i - 1) : s[k] # ",") => s[j] \in Whitespace })

IsLanguageCode(code) ==
    /\ code # <<>>
    /\ \A i \in 1..Len(code) : code[i] \notin {"A", "B", "D", "E", "N", ","}
    /\ code[1] \notin Whitespace
    /\ code[Len(code)] \notin Whitespace

NoDuplicates(seq) ==
    \A i, j \in 1..Len(seq) : i # j => seq[i] # seq[j]

\* the codes a raw lang string names
PieceCodes(lang) ==
    {Lower(Strip(Split(lang)[k])) : k \in 1..Len(Split(lang))} \ {<<>>}

\* the first piece of a raw lang string that names code
FirstPiece(lang, code) ==
    CHOOSE k \in 1..Len(Split(lang)) :
        /\ Lower(Strip(Split(lang)[k])) = code
        /\ \A j \in 1..(k - 1) : Lower(Strip(Split(lang)[j])) # code

\* the codes, in order, are the non-blank pieces of the input, lowercased
InInputOrder(lang, codes) ==
    IF lang = None \/ lang = <<>> THEN codes = <<En>>
    ELSE RemoveWhitespace(Join(<<",">>, codes))
            = DropEmptyPieces(RemoveWhitespace(Lower(lang)), ",")

-----------------------------------------------------------------------------
(* C4: for every input, the list _parse_languages returns has at least one  *)
(* entry.                                                                    *)
C4_AtLeastOneEntry == p_done => Len(p_languages) >= 1

-----------------------------------------------------------------------------
(* C5, as claimed: for every input, the list _parse_languages returns is    *)
(* ordered as the codes first appear in the input, holds only lowercase     *)
(* non-empty codes, and holds no code more than once.                        *)
C5_Deduplicated ==
    p_done =>
        /\ \A i \in 1..Len(p_languages) : IsLanguageCode(p_languages[i])
        /\ NoDuplicates(p_languages)
        /\ IF p_lang = None \/ p_lang = <<>> THEN p_languages = <<En>>
           ELSE /\ {p_languages[i] : i \in 1..Len(p_languages)} = PieceCodes(p_lang)
                /\ \A i, j \in 1..Len(p_languages) :
                      i < j => FirstPiece(p_lang, p_languages[i])
                                 < FirstPiece(p_lang, p_languages[j])

(* C5, amended: for every input, the list _parse_languages returns holds    *)
(* one entry per non-blank comma-separated piece of the input, in the       *)
(* input's order, each entry the piece trimmed and lowercased (non-empty,   *)
(* lowercase); a code given several times occurs several times. Absent or   *)
(* empty input gives ["en"].                                                 *)
C5_OnePerPieceInOrder ==
    p_done =>
        /\ \A i \in 1..Len(p_languages) : IsLanguageCode(p_languages[i])
        /\ InInputOrder(p_lang, p_languages)
        /\ (p_lang # None /\ p_lang # <<>>)
              => Len(p_languages) = NonBlankPieceCount(p_lang)

\* C5, witness: "a,A" parsed: the code a twice
C5_Witness ==
    /\ p_done
    /\ p_lang = <<"a", ",", "A">>
    /\ p_languages = << <<"a">>, <<"a">> >>

-----------------------------------------------------------------------------
(* timestamps read back from the string *)

DigitVal(c) ==
    CASE c = "0" -> 0 [] c = "1" -> 1 [] c = "2" -> 2 [] c = "3" -> 3
      [] c = "4" -> 4 [] c = "5" -> 5 [] c = "6" -> 6 [] c = "7" -> 7
      [] c = "8" -> 8 [] c = "9" -> 9

IsDigit(c) == c \in {"0", "1", "2", "3", "4", "5", "6", "7", "8", "9"}

RECURSIVE Num(_)
Num(s) == IF s = <<>> THEN 0
          ELSE Num(SubSeq(s, 1, Len(s) - 1)) * 10 + DigitVal(s[Len(s)])

\* s is HH:MM:SS<sep>mmm, 12 characters, and reads as ms milliseconds
IsFixedWidthTimestamp(s, sep, ms) ==
    /\ Len(s) = 12
    /\ \A i \in {1, 2, 4, 5, 7, 8, 10, 11, 12} : IsDigit(s[i])
    /\ s[3] = ":" /\ s[6] = ":" /\ s[9] = sep
    /\ LET hours   == Num(SubSeq(s, 1, 2))
           minutes == Num(SubSeq(s, 4, 5))
           secs    == Num(SubSeq(s, 7, 8))
           millis  == Num(SubSeq(s, 10, 12))
       IN  /\ hours = ms \div 3600000
           /\ minutes = (ms % 3600000) \div 60000 /\ minutes \in 0..59
           /\ secs = (ms % 60000) \div 1000 /\ secs \in 0..59
           /\ millis = ms % 1000 /\ millis \in 0..999
           /\ hours * 3600000 + minutes * 60000 + secs * 1000 + millis = ms

SameButSeparator(srt, vtt) ==
    /\ Len(srt) = Len(vtt)
    /\ \A i \in 1..Len(srt) :
          IF i = Len(srt) - 3 THEN srt[i] = "," /\ vtt[i] = "."
          ELSE srt[i] = vtt[i]

(* C10, as claimed: for every non-negative millisecond total the two         *)
(* functions return the 12-character string HH:MM:SS<sep>mmm whose fields    *)
(* are the decomposition of ms, and differ in the separator only.            *)
C10_FixedWidthAlways ==
    ts_done =>
        /\ IsFixedWidthTimestamp(ts_srt, ",", MillisecondsTotal(ts_seconds))
        /\ IsFixedWidthTimestamp(ts_vtt, ".", MillisecondsTotal(ts_seconds))
        /\ SameButSeparator(ts_srt, ts_vtt)

(* C10, amended: the same for every millisecond total below 360,000,000     *)
(* (100 hours); from 100 hours on the hours field is printed in full, with  *)
(* more than 2 digits, and the string is longer than 12 characters. The two *)
(* variants differ in the separator only, at every value.                    *)
C10_FixedWidthBelow100Hours ==
    ts_done =>
        LET ms == MillisecondsTotal(ts_seconds)
        IN  /\ ms < 360000000 =>
                /\ IsFixedWidthTimestamp(ts_srt, ",", ms)
                /\ IsFixedWidthTimestamp(ts_vtt, ".", ms)
            /\ ms >= 360000000 =>
                /\ Len(ts_srt) > 12
                /\ Num(SubSeq(ts_srt, 1, Len(ts_srt) - 10)) = ms \div 3600000
            /\ SameButSeparator(ts_srt, ts_vtt)

\* C10, witness: 3599.9995 s rounds up into the hours field
C10_Witness ==
    /\ ts_done
    /\ ts_seconds = 3599999 * 4 + 2
    /\ ts_srt = <<"0", "1", ":", "0", "0", ":", "0", "0", ",", "0", "0", "0">>
    /\ ts_vtt = <<"0", "1", ":", "0", "0", ":", "0", "0", ".", "0", "0", "0">>

-----------------------------------------------------------------------------
(* the SRT body the specification describes *)

\* text without its trailing whitespace
TrimTrailing(text) ==
    SubSeq(text, 1, Max({0} \cup {i \in 1..Len(text) : text[i] \notin Whitespace}))

CueHead(snippets, i) ==
    Str(i) \o NL
    \o ToSrtTimestamp(snippets[i].start) \o Arrow
    \o ToSrtTimestamp(snippets[i].start + snippets[i].duration)

\* cue i: index, time line, text
Cue(snippets, i) == CueHead(snippets, i) \o NL \o snippets[i].text

RECURSIVE CuesUpTo(_, _)
\* cues 1..n, a blank line after each
CuesUpTo(snippets, n) ==
    IF n = 0 THEN <<>>
    ELSE CuesUpTo(snippets, n - 1) \o Cue(snippets, n) \o NL \o NL

EndsWithOneNewline(s) ==
    /\ s # <<>>
    /\ s[Len(s)] = "\n"
    /\ Len(s) > 1 => s[Len(s) - 1] \notin Whitespace

(* C7, as claimed: _format_srt returns the n cues in input order, cue i      *)
(* being the index i, the line start --> end and the snippet's text          *)
(* unchanged, the cues separated by one blank line, and the output ends      *)
(* with exactly one newline ("\n" alone for n = 0), also when the last       *)
(* snippet's text is empty or ends in whitespace.                            *)
C7_EveryTextUnchanged ==
    f_done =>
        LET n == Len(f_transcript)
        IN  /\ f_out = IF n = 0 THEN NL
                       ELSE CuesUpTo(f_transcript, n - 1)
                            \o Cue(f_transcript, n) \o NL
            /\ f_out[Len(f_out)] = "\n"

(* C7, amended: _format_srt returns the n cues in input order, separated by *)
(* one blank line, every cue but the last unchanged; the last cue's text    *)
(* loses its trailing whitespace, and its text line is absent when the text *)
(* is empty or all whitespace; the output ends with exactly one newline,    *)
(* and is "\n" alone for n = 0.                                              *)
C7_LastTextTrimmed ==
    f_done =>
        LET n == Len(f_transcript)
            last == TrimTrailing(f_transcript[n].text)
        IN  /\ f_out = IF n = 0 THEN NL
                       ELSE CuesUpTo(f_transcript, n - 1)
                            \o CueHead(f_transcript, n)
                            \o (IF last = <<>> THEN <<>> ELSE NL \o last)
                            \o NL
            /\ EndsWithOneNewline(f_out)

\* C7, witness: two snippets, the last one's text "h " written as "h"
C7_Witness ==
    /\ f_done
    /\ Len(f_transcript) = 2
    /\ f_transcript[1].text = <<" ">>
    /\ f_transcript[2].text = <<"h", " ">>
    /\ SubSeq(f_out, Len(f_out) - 2, Len(f_out)) = <<"\n", "h", "\n">>

-----------------------------------------------------------------------------
(* Properties of get_transcript *)

Threads == DOMAIN pc

Raised(t, kinds) == exc[t] # <<>> /\ exc[t][1].kind \in kinds

IsErrorResponse(t, status_code, detail) ==
    /\ response[t] # <<>>
    /\ response[t][1].status_code = status_code
    /\ response[t][1].kind = "error"
    /\ response[t][1].content = detail

(* C1: whenever a provider call raises YouTubeRequestFailed, the request    *)
(* ends with a 502 response whose detail is the error's message.            *)
C1_RequestFailedIs502 ==
    \A t \in Threads :
        Raised(t, {"YouTubeRequestFailed"})
            => IsErrorResponse(t, 502, exc[t][1].msg)

(* C2: whenever the provider raises a not-found, disabled, unavailable,     *)
(* blocked, age-restricted, invalid-id or token-required kind, also when    *)
(* find_transcript and then find_generated_transcript raise                 *)
(* NoTranscriptFound, the request ends with a 404 response whose detail is  *)
(* the error's message, unchanged.                                           *)
C2_NotFoundIs404 ==
    \A t \in Threads :
        Raised(t, {"NoTranscriptFound", "TranscriptsDisabled", "VideoUnavailable",
                   "VideoUnplayable", "IpBlocked", "RequestBlocked",
                   "AgeRestricted", "InvalidVideoId", "PoTokenRequired"})
            => IsErrorResponse(t, 404, exc[t][1].msg)

\* C2, witness: find_transcript and find_generated_transcript both found nothing
C2_Witness ==
    \E t \in Threads :
        /\ pc[t] = "done"
        /\ calls[t] = <<"_parse_languages", "_get_api", "list", "find_transcript",
                        "find_generated_transcript">>
        /\ Raised(t, {"NoTranscriptFound"})
        /\ exc[t][1].msg = "m2"
        /\ IsErrorResponse(t, 404, "m2")

(* C3: a request whose videoId is missing or empty is answered 400, and no  *)
(* language parsing, client construction, provider operation or serializer  *)
(* runs for it.                                                              *)
C3_MissingVideoIdRejected ==
    \A t \in Threads :
        (pc[t] # "idle" /\ req[t].video_id \in {None, <<>>}) =>
            /\ pc[t] \in {"validate", "done"}
            /\ calls[t] = <<>>
            /\ languages[t] = <<>> /\ api[t] = <<>>
            /\ pc[t] = "done" =>
                  IsErrorResponse(t, 400, "Missing required query parameter 'videoId'.")

\* C3, witness: videoId= (empty) answered 400
C3_Witness ==
    \E t \in Threads :
        /\ pc[t] = "done"
        /\ req[t].video_id = <<>>
        /\ response[t][1].status_code = 400
        /\ calls[t] = <<>>

(* C6: if some manually-created track has a language of the preference      *)
(* list, the selected track is a manually-created one, even when an         *)
(* auto-generated track matches an earlier language of the list; an         *)
(* auto-generated track is selected only when no manually-created track     *)
(* matches any preferred language.                                           *)
C6_ManualPreferred ==
    \A t \in Threads :
        (transcript[t] # <<>> /\ transcript_list[t] # <<>>) =>
            LET manualMatches ==
                    \E i \in 1..Len(languages[t]) :
                        languages[t][i] \in transcript_list[t][1].manual
            IN  /\ manualMatches => ~transcript[t][1].is_generated
                /\ transcript[t][1].is_generated => ~manualMatches

(* C8, as claimed: the body of _get_api runs at most once per process, over *)
(* any interleaving of requests, and every request uses the same handle.    *)
C8_ConstructedAtMostOnce ==
    /\ constructed <= 1
    /\ \A t, u \in Threads :
          (api[t] # <<>> /\ api[u] # <<>>) => api[t] = api[u]

(* C8, amended: once a handle is in the cache it stays there unchanged, and *)
(* every request that calls _get_api from then on gets that handle without  *)
(* the body running. Requests that call _get_api while the cache is empty   *)
(* (concurrent first requests, or requests after a construction that        *)
(* raised) each run the body.                                                *)
C8_CachedHandleReused ==
    [][ /\ cache # <<>> => cache' = cache
        /\ \A t \in Threads :
              (pc[t] = "get_api" /\ pc'[t] # "get_api") =>
                  IF cache # <<>>
                  THEN /\ pc'[t] = "list"
                       /\ api'[t] = cache
                       /\ constructed' = constructed
                  ELSE pc'[t] = "get_api_body"
        /\ constructed' # constructed =>
              \E t \in Threads : pc[t] = "get_api_body" /\ constructed' = constructed + 1
      ]_vars

\* C8, witness: one construction, and two worker threads holding the cached handle
C8_Witness ==
    /\ constructed = 1
    /\ cache # <<>>
    /\ \E t, u \in Threads : t # u /\ api[t] = cache /\ api[u] = cache

CallRank(c) ==
    CASE c = "_parse_languages" -> 1
      [] c = "_get_api" -> 2
      [] c = "list" -> 3
      [] c = "find_transcript" -> 4
      [] c = "find_generated_transcript" -> 5
      [] c = "fetch" -> 6
      [] c \in {"to_raw_data", "_format_txt", "_format_srt", "_format_vtt"} -> 7

(* C9: in every execution of get_transcript the steps occur in the order    *)
(* api.list, track selection, fetch, format dispatch, api.list and fetch    *)
(* at most once each; a serializer runs only after fetch has returned, and  *)
(* when a provider step fails the response is an error response and no      *)
(* serializer has run.                                                       *)
C9_StepsInOrder ==
    \A t \in Threads :
        LET c == calls[t]
            serialized == \E i \in 1..Len(c) : CallRank(c[i]) = 7
        IN  /\ \A i, j \in 1..Len(c) : i < j => CallRank(c[i]) < CallRank(c[j])
            /\ \A i \in 1..Len(c) :
                  /\ c[i] = "fetch" => i > 2 /\ CallRank(c[i - 1]) \in {4, 5}
                  /\ c[i] = "find_transcript" => i > 1 /\ c[i - 1] = "list"
                  /\ CallRank(c[i]) = 7 => i > 1 /\ c[i - 1] = "fetch"
            /\ pc[t] = "format" => fetched[t] # <<>>
            /\ serialized =>
                  /\ pc[t] = "done"
                  /\ exc[t] = <<>>
                  /\ response[t][1].status_code = 200
            /\ exc[t] # <<>> =>
                  /\ pc[t] = "done"
                  /\ response[t][1].kind = "error"
                  /\ response[t][1].status_code \in {404, 500, 502}
                  /\ ~serialized

\* C9, witness: a request served as SRT
C9_Witness ==
    \E t \in Threads :
        /\ pc[t] = "done"
        /\ calls[t] = <<"_parse_languages", "_get_api", "list", "find_transcript",
                        "fetch", "_format_srt">>
        /\ response[t][1].status_code = 200
        /\ response[t][1].content = FormatSrt(<<Snippet1, Snippet2>>)

=============================================================================
